---- MODULE Spec2Model ----
(***************************************************************************)
(* A model of the xplora_watch integration: the geocoding client and its   *)
(* recursive normalizer (geocoder.py) and the binary sensor entity         *)
(* (binary_sensor.py).                                                     *)
(*                                                                         *)
(* JSON-like values are tagged records: [t |-> "null"], [t |-> "bool", v], *)
(* [t |-> "num", m, e] (the number m / 10^e, normalised so that equal      *)
(* numbers are equal records, as Python's == on int/float is by value),    *)
(* [t |-> "str", v] with v a sequence of one-character strings,            *)
(* [t |-> "list", v] with v a sequence and [t |-> "map", v] with v a       *)
(* function from keys to values.  A Python exception leaving a function is *)
(* the value [t |-> "raise", v |-> <exception class>].                     *)
(***************************************************************************)
EXTENDS Integers, Sequences, FiniteSets, TLC

VARIABLES
    input,      \* normalizer: the value handed to floatify_latlng
    out,        \* normalizer: floatify_latlng(input), once computed
    out2,       \* normalizer: floatify_latlng(out), once computed
    npc,        \* normalizer: "ready", "once", "twice"
    aiohttp_avaiable,  \* geocoder.py's module flag, fixed at import
    session,    \* client: self.session, 0 for None, else an index of sessions
    sessions,   \* every session the client has opened: [kind, closed]
    scopes,     \* the with / async with blocks on the client now entered
    scopeErr,   \* the exception the last enter or exit raised, or "none"
    pc,         \* the geocode call in progress: "idle", "ua", "req", "resp"
    op,         \* the operation called last: "geocode" or "reverse"
    query,      \* its query
    ncalls,     \* calls begun so far
    sessAtCall, \* self.session when the call began
    depthAtCall,\* the number of scopes entered when the call began
    uaReqs,     \* requests the call sent to the user-agent page
    reqs,       \* requests the call sent to the geocoding endpoint
    raised,     \* times the call raised to its caller
    status,     \* the status of the response the call received, 0 for none
    body,       \* its body
    reqResult,  \* what _opencage_async_request returned or raised
    outcome,    \* what the call returned or raised
    succeeded,  \* some call so far has returned results
    description_key, \* sensor: entity_description.key
    types,      \* sensor: _types, the sensor types configured
    child_no,   \* sensor: _child_no, the watch ids
    first,      \* sensor: _first
    start_time, \* sensor: _start_time
    now,        \* the clock
    attr,       \* sensor: _attr_native_value, _attr_name, _attr_unique_id, _attr_is_on, _attr_icon
    upc,        \* the async_update in progress: "idle" or "children"
    idx,        \* the position in _child_no it has reached
    log,        \* the controller calls of the last async_update, with what they returned
    attrBefore, \* attr when the last async_update began
    calledAt,   \* the clock when the last async_update began
    guardAtCall \* what its condition evaluated to: "none" before any call, "run", "skip"

nvars == <<input, out, out2, npc>>
cvars == <<aiohttp_avaiable, session, sessions, scopes, scopeErr, pc, op, query, ncalls,
           sessAtCall, depthAtCall, uaReqs, reqs, raised, status, body, reqResult,
           outcome, succeeded>>
svars == <<description_key, types, child_no, first, start_time, now, attr, upc, idx, log, attrBefore,
           calledAt, guardAtCall>>
vars == <<nvars, cvars, svars>>

(***************************************************************************)
(* Bounds of the model.                                                    *)
(***************************************************************************)
MaxStrLen == 3
MaxListLen == 2
MaxDepth == 2
MaxSessions == 2
MaxCalls == 2
MaxChildren == 2
MaxTime == 2

(***************************************************************************)
(* JSON-like values.                                                       *)
(***************************************************************************)
JNull == [t |-> "null"]
JBool(b) == [t |-> "bool", v |-> b]
JStr(cs) == [t |-> "str", v |-> cs]
JList(xs) == [t |-> "list", v |-> xs]
JMap(f) == [t |-> "map", v |-> f]
Raise(cls) == [t |-> "raise", v |-> cls]
NotRun == [t |-> "notrun"]

RECURSIVE Normalise(_, _)
Normalise(m, e) ==
    IF m = 0 THEN [m |-> 0, e |-> 0]
    ELSE IF e > 0 /\ m % 10 = 0 THEN Normalise(m \div 10, e - 1)
    ELSE [m |-> m, e |-> e]

JNum(m, e) == [t |-> "num", m |-> Normalise(m, e).m, e |-> Normalise(m, e).e]

IsRaise(x) == x.t = "raise"

(***************************************************************************)
(* float(): the part of Python's float literal grammar over the alphabet   *)
(* Chars: an optional sign, then digits with at most one point and at      *)
(* least one digit ("1", "1.", ".1", "-0.1", ...).                         *)
(***************************************************************************)
Digits == {"0", "1"}
Chars == Digits \cup {".", "-", "n"}

DigitVal(c) == IF c = "1" THEN 1 ELSE 0

Unsigned(cs) == IF Len(cs) > 0 /\ cs[1] = "-" THEN Tail(cs) ELSE cs

IsFloatLiteral(cs) ==
    LET r == Unsigned(cs) IN
    /\ \A i \in 1..Len(r) : r[i] \in Digits \cup {"."}
    /\ Cardinality({i \in 1..Len(r) : r[i] = "."}) <= 1
    /\ \E i \in 1..Len(r) : r[i] \in Digits

RECURSIVE Mantissa(_)
Mantissa(r) ==
    IF r = <<>> THEN 0
    ELSE LET last == r[Len(r)]
             rest == SubSeq(r, 1, Len(r) - 1)
         IN  IF last = "." THEN Mantissa(rest)
             ELSE 10 * Mantissa(rest) + DigitVal(last)

FracDigits(r) ==
    IF \E i \in 1..Len(r) : r[i] = "."
    THEN Len(r) - (CHOOSE i \in 1..Len(r) : r[i] = ".")
    ELSE 0

ParseFloat(cs) ==
    LET r == Unsigned(cs)
        sign == IF Len(cs) > 0 /\ cs[1] = "-" THEN -1 ELSE 1
    IN  JNum(sign * Mantissa(r), FracDigits(r))

\* float(x): a string is parsed (ValueError when it is no literal), a number
\* is itself, a bool is 1.0 or 0.0, anything else is a TypeError.
PyFloat(x) ==
    CASE x.t = "str" -> IF IsFloatLiteral(x.v) THEN ParseFloat(x.v) ELSE Raise("ValueError")
      [] x.t = "num" -> x
      [] x.t = "bool" -> IF x.v THEN JNum(1, 0) ELSE JNum(0, 0)
      [] OTHER -> Raise("TypeError")

(***************************************************************************)
(* geocoder.py: float_if_float and floatify_latlng.                        *)
(***************************************************************************)
float_if_float(float_string) ==
    LET float_val == PyFloat(float_string) IN
    IF float_val = Raise("ValueError") THEN float_string ELSE float_val

LatLngKeys == {"lat", "lng"}

\* The first exception among the children, if any, leaves the comprehension.
FirstRaise(S) == IF \E x \in S : IsRaise(x) THEN CHOOSE x \in S : IsRaise(x) ELSE NotRun

Range(f) == {f[k] : k \in DOMAIN f}

\* floatify_latlng with the two coordinates of a leaf exchanged.
RECURSIVE floatify_latlng_swapped(_)
floatify_latlng_swapped(input_value) ==
    IF input_value.t = "map" THEN
        IF Cardinality(DOMAIN input_value.v) = 2 /\ DOMAIN input_value.v = LatLngKeys
        THEN LET la == float_if_float(input_value.v["lng"])
                 ln == float_if_float(input_value.v["lat"])
             IN  IF IsRaise(ln) THEN ln
                 ELSE IF IsRaise(la) THEN la
                 ELSE JMap([k \in LatLngKeys |-> IF k = "lat" THEN la ELSE ln])
        ELSE LET kids == [key \in DOMAIN input_value.v |->
                             floatify_latlng_swapped(input_value.v[key])]
             IN  IF FirstRaise(Range(kids)) # NotRun THEN FirstRaise(Range(kids))
                 ELSE JMap(kids)
    ELSE IF input_value.t = "list" THEN
        LET kids == [i \in 1..Len(input_value.v) |-> floatify_latlng_swapped(input_value.v[i])]
        IN  IF FirstRaise(Range(kids)) # NotRun THEN FirstRaise(Range(kids))
            ELSE JList(kids)
    ELSE input_value

RECURSIVE floatify_latlng(_)
floatify_latlng(input_value) ==
    IF input_value.t = "map" THEN
        IF Cardinality(DOMAIN input_value.v) = 2 /\ DOMAIN input_value.v = LatLngKeys
        THEN LET la == float_if_float(input_value.v["lat"])
                 ln == float_if_float(input_value.v["lng"])
             IN  IF IsRaise(la) THEN la
                 ELSE IF IsRaise(ln) THEN ln
                 ELSE JMap([k \in LatLngKeys |-> IF k = "lat" THEN la ELSE ln])
        ELSE LET kids == [key \in DOMAIN input_value.v |-> floatify_latlng(input_value.v[key])]
             IN  IF FirstRaise(Range(kids)) # NotRun THEN FirstRaise(Range(kids))
                 ELSE JMap(kids)
    ELSE IF input_value.t = "list" THEN
        LET kids == [i \in 1..Len(input_value.v) |-> floatify_latlng(input_value.v[i])]
        IN  IF FirstRaise(Range(kids)) # NotRun THEN FirstRaise(Range(kids))
            ELSE JList(kids)
    ELSE input_value

(***************************************************************************)
(* Inputs of the normalizer.                                               *)
(***************************************************************************)
RECURSIVE StringsOfLen(_)
StringsOfLen(n) ==
    IF n = 0 THEN {<<>>}
    ELSE {Append(s, c) : s \in StringsOfLen(n - 1), c \in Chars}

AllStrings == UNION {StringsOfLen(n) : n \in 0..MaxStrLen}

Scalars ==
    {JNull, JBool(TRUE), JNum(1, 1), JNum(-1, 0), JStr(<<"1", ".", "0">>), JStr(<<"n">>)}

Siblings == {JNull, JNum(1, 1)}

KeySets == {{}, {"lat"}, {"lat", "lng"}, {"lat", "alt"}, {"lat", "lng", "alt"}}

\* Every mapping over KeySets and every list up to MaxListLen with children in T.
Full(T) ==
    UNION {{JMap(f) : f \in [K -> T]} : K \in KeySets}
    \cup UNION {{JList(l) : l \in [1..n -> T]} : n \in 0..MaxListLen}

\* x as the one deep child of a list or of a mapping over each of KeySets.
Wrap(T) ==
    {JList(<<x>>) : x \in T}
    \cup {JList(<<JNull, x>>) : x \in T}
    \cup {JMap([k \in {"lat"} |-> x]) : x \in T}
    \cup {JMap([k \in {"lat", "alt"} |-> IF k = "lat" THEN x ELSE JNull]) : x \in T}
    \cup {JMap([k \in {"lat", "lng", "alt"} |-> IF k = "lng" THEN x ELSE JNum(-1, 0)]) : x \in T}
    \cup {JMap([k \in LatLngKeys |-> IF k = d THEN x ELSE y]) :
             x \in T, d \in LatLngKeys, y \in Siblings}

RECURSIVE Trees(_)
Trees(d) ==
    IF d = 0 THEN Scalars
    ELSE IF d = 1 THEN Scalars \cup Full(Scalars)
    ELSE LET T == Trees(d - 1) IN T \cup Wrap(T)

\* A coordinate leaf whose lat is any string over Chars.
StringLeaves ==
    {JMap([k \in LatLngKeys |-> IF k = "lat" THEN JStr(s) ELSE x]) :
        s \in AllStrings, x \in Siblings}

\* The client as constructed: OpenCageGeocodeUA's class attributes and __init__.
None == 0

ClientInit ==
    /\ aiohttp_avaiable \in BOOLEAN
    /\ session = None
    /\ sessions = <<>>
    /\ scopes = <<>>
    /\ scopeErr = "none"
    /\ pc = "idle"
    /\ op = "none"
    /\ query = JNull
    /\ ncalls = 0
    /\ sessAtCall = None
    /\ depthAtCall = 0
    /\ uaReqs = 0
    /\ reqs = 0
    /\ raised = 0
    /\ status = 0
    /\ body = NotRun
    /\ reqResult = NotRun
    /\ outcome = NotRun
    /\ succeeded = FALSE

ClientIdle ==
    /\ ClientInit
    /\ aiohttp_avaiable = TRUE

\* No sensor entity: the attributes as the entity class declares them.
NoAttr ==
    [native_value |-> JNull, name |-> JNull, unique_id |-> JNull, is_on |-> JNull, icon |-> JNull]

SensorIdle ==
    /\ types = {}
    /\ description_key = "none"
    /\ child_no = <<>>
    /\ first = FALSE
    /\ now = 0
    /\ start_time = 0
    /\ attr = NoAttr
    /\ upc = "off"
    /\ idx = 0
    /\ log = <<>>
    /\ attrBefore = NoAttr
    /\ calledAt = 0
    /\ guardAtCall = "none"

(***************************************************************************)
(* The normalizer applied to an input, and applied again to its result.    *)
(***************************************************************************)
NormInit ==
    /\ ClientIdle
    /\ SensorIdle
    /\ input \in Trees(MaxDepth) \cup StringLeaves
    /\ out = NotRun
    /\ out2 = NotRun
    /\ npc = "ready"

NormIdle ==
    /\ input = JNull
    /\ out = NotRun
    /\ out2 = NotRun
    /\ npc = "off"

Floatify ==
    /\ npc = "ready"
    /\ out' = floatify_latlng(input)
    /\ npc' = "once"
    /\ UNCHANGED <<input, out2, cvars, svars>>

FloatifyAgain ==
    /\ npc = "once"
    /\ ~IsRaise(out)
    /\ out2' = floatify_latlng(out)
    /\ npc' = "twice"
    /\ UNCHANGED <<input, out, cvars, svars>>

NormNext == Floatify \/ FloatifyAgain

SpecNorm == NormInit /\ [][NormNext]_vars

(***************************************************************************)
(* geocoder.py: OpenCageGeocodeUA.  One caller uses the client: it enters  *)
(* and leaves with / async with blocks (properly nested, as the statements *)
(* are) and awaits one call at a time.                                     *)
(***************************************************************************)
callvars == <<pc, op, query, ncalls, sessAtCall, depthAtCall, uaReqs, reqs, raised,
              status, body, reqResult, outcome, succeeded>>

ExitPaths == {"normal", "return", "error"}

Top(stack) == stack[Len(stack)]
Pop(stack) == SubSeq(stack, 1, Len(stack) - 1)

Close(i) == [sessions EXCEPT ![i].closed = TRUE]

\* __enter__: a new requests.Session replaces whatever self.session held.
__enter__ ==
    /\ pc = "idle"
    /\ Len(sessions) < MaxSessions
    /\ sessions' = Append(sessions, [kind |-> "requests", closed |-> FALSE])
    /\ session' = Len(sessions) + 1
    /\ scopes' = Append(scopes, "sync")
    /\ scopeErr' = "none"
    /\ UNCHANGED <<aiohttp_avaiable, callvars, nvars, svars>>

\* __exit__: closes self.session and forgets it, whatever ended the block;
\* None has no close().  An aiohttp session's close() is a coroutine, which
\* this does not await.
__exit__(path) ==
    /\ pc = "idle"
    /\ scopes # <<>> /\ Top(scopes) = "sync"
    /\ path \in ExitPaths
    /\ scopes' = Pop(scopes)
    /\ IF session = None
       THEN /\ scopeErr' = "AttributeError"
            /\ UNCHANGED <<session, sessions>>
       ELSE /\ sessions' = IF sessions[session].kind = "requests" THEN Close(session)
                           ELSE sessions
            /\ session' = None
            /\ scopeErr' = "none"
    /\ UNCHANGED <<aiohttp_avaiable, callvars, nvars, svars>>

\* __aenter__: without aiohttp it raises and the block is not entered.
__aenter__ ==
    /\ pc = "idle"
    /\ Len(sessions) < MaxSessions
    /\ IF ~aiohttp_avaiable
       THEN /\ scopeErr' = "AioHttpError"
            /\ UNCHANGED <<session, sessions, scopes>>
       ELSE /\ sessions' = Append(sessions, [kind |-> "aiohttp", closed |-> FALSE])
            /\ session' = Len(sessions) + 1
            /\ scopes' = Append(scopes, "async")
            /\ scopeErr' = "none"
    /\ UNCHANGED <<aiohttp_avaiable, callvars, nvars, svars>>

\* __aexit__ that closes the session and keeps holding it.
aexit_keeps_session(path) ==
    /\ pc = "idle"
    /\ scopes # <<>> /\ Top(scopes) = "async"
    /\ path \in ExitPaths
    /\ scopes' = Pop(scopes)
    /\ IF session = None
       THEN /\ scopeErr' = "AttributeError"
            /\ UNCHANGED <<session, sessions>>
       ELSE /\ sessions' = Close(session)
            /\ scopeErr' = "none"
            /\ UNCHANGED session
    /\ UNCHANGED <<aiohttp_avaiable, callvars, nvars, svars>>

\* __aexit__: awaits self.session.close() and forgets the session.  A
\* requests session's close() returns None, which cannot be awaited.
__aexit__(path) ==
    /\ pc = "idle"
    /\ scopes # <<>> /\ Top(scopes) = "async"
    /\ path \in ExitPaths
    /\ scopes' = Pop(scopes)
    /\ IF session = None
       THEN /\ scopeErr' = "AttributeError"
            /\ UNCHANGED <<session, sessions>>
       ELSE IF sessions[session].kind = "requests"
       THEN /\ sessions' = Close(session)
            /\ scopeErr' = "TypeError"
            /\ UNCHANGED session
       ELSE /\ sessions' = Close(session)
            /\ session' = None
            /\ scopeErr' = "none"
    /\ UNCHANGED <<aiohttp_avaiable, callvars, nvars, svars>>

(***************************************************************************)
(* _query_for_reverse_geocoding: "{0:f},{1:f}" of Decimal(str(lat)) and    *)
(* Decimal(str(lng)), for lat and lng Python floats m / 10^e.              *)
(***************************************************************************)
DigitChar(d) == <<"0", "1", "2", "3", "4", "5", "6", "7", "8", "9">>[d + 1]

RECURSIVE DigitsOf(_)
DigitsOf(n) == IF n < 10 THEN <<DigitChar(n)>> ELSE Append(DigitsOf(n \div 10), DigitChar(n % 10))

RECURSIVE ZeroPad(_, _)
ZeroPad(ds, n) == IF Len(ds) >= n THEN ds ELSE ZeroPad(<<"0">> \o ds, n)

Abs(n) == IF n < 0 THEN -n ELSE n

FormatF(x) ==
    LET ds == ZeroPad(DigitsOf(Abs(x.m)), x.e + 1)
        whole == SubSeq(ds, 1, Len(ds) - x.e)
        frac == IF x.e = 0 THEN <<"0">> ELSE SubSeq(ds, Len(ds) - x.e + 1, Len(ds))
    IN  (IF x.m < 0 THEN <<"-">> ELSE <<>>) \o whole \o <<".">> \o frac

_query_for_reverse_geocoding(lat, lng) == JStr(FormatF(lat) \o <<",">> \o FormatF(lng))

(***************************************************************************)
(* geocode_async and reverse_geocode_async.                                *)
(***************************************************************************)
\* _parse_request without its isinstance check.
_parse_request_unchecked(q) == [t |-> "ok", v |-> [q |-> q, key |-> "key"]]

\* _parse_request, called without extra parameters.
_parse_request(q) ==
    IF q.t # "str" THEN Raise("InvalidInputError")
    ELSE [t |-> "ok", v |-> [q |-> q, key |-> "key"]]

\* The checks of geocode_async up to the request: lines 160 to 169.
geocode_async_checks(q) ==
    IF ~aiohttp_avaiable THEN Raise("AioHttpError")
    ELSE IF session = None THEN Raise("AioHttpError")
    ELSE IF sessions[session].kind # "aiohttp" THEN Raise("AioHttpError")
    ELSE _parse_request(q)

Begin(name, q) ==
    /\ pc = "idle"
    /\ ncalls < MaxCalls
    /\ ncalls' = ncalls + 1
    /\ op' = name
    /\ query' = q
    /\ sessAtCall' = session
    /\ depthAtCall' = Len(scopes)
    /\ uaReqs' = 0
    /\ reqs' = 0
    /\ status' = 0
    /\ body' = NotRun
    /\ reqResult' = NotRun
    /\ IF IsRaise(geocode_async_checks(q))
       THEN /\ outcome' = geocode_async_checks(q)
            /\ raised' = 1
            /\ pc' = "idle"
       ELSE /\ outcome' = NotRun
            /\ raised' = 0
            /\ pc' = "ua"
    /\ UNCHANGED <<aiohttp_avaiable, session, sessions, scopes, scopeErr, succeeded, nvars, svars>>

Queries == {JStr(<<"n">>), JNum(1, 0), JNull}
Coords == {JNum(1, 1), JNum(-101, 2), JNum(1, 5)}

geocode_async == \E q \in Queries : Begin("geocode", q)

reverse_geocode_async ==
    \E lat \in Coords, lng \in Coords \ {JNum(1, 5)} :
        Begin("reverse", _query_for_reverse_geocoding(lat, lng))

\* What the user-agent page may hold, and what getUA raises on it.
UAPages == {"ok", "no_textarea", "bad_json", "empty_list", "no_useragent"}

UAError(page) ==
    CASE page = "no_textarea" -> "IndexError"
      [] page = "bad_json" -> "ValueError"
      [] page = "empty_list" -> "ValueError"
      [] page = "no_useragent" -> "KeyError"

\* getUA: one request to the user-agent page; a closed session refuses it.
getUA ==
    /\ pc = "ua"
    /\ IF sessions[session].closed
       THEN /\ outcome' = Raise("RuntimeError")
            /\ raised' = raised + 1
            /\ pc' = "idle"
            /\ UNCHANGED uaReqs
       ELSE /\ uaReqs' = uaReqs + 1
            /\ \E page \in UAPages :
                 IF page = "ok"
                 THEN /\ pc' = "req"
                      /\ UNCHANGED <<outcome, raised>>
                 ELSE /\ outcome' = Raise(UAError(page))
                      /\ raised' = raised + 1
                      /\ pc' = "idle"
    /\ UNCHANGED <<aiohttp_avaiable, session, sessions, scopes, scopeErr, op, query, ncalls,
                   sessAtCall, depthAtCall, reqs, status, body, reqResult, succeeded, nvars, svars>>

\* self.session.get(self.url, ...): the request to the geocoding endpoint.
SendRequest ==
    /\ pc = "req"
    /\ reqs' = reqs + 1
    /\ pc' = "resp"
    /\ UNCHANGED <<aiohttp_avaiable, session, sessions, scopes, scopeErr, op, query, ncalls,
                   sessAtCall, depthAtCall, uaReqs, raised, status, body, reqResult,
                   outcome, succeeded, nvars, svars>>

(***************************************************************************)
(* Responses: a status and a body, which is no JSON or a JSON object with  *)
(* or without "rate" and "results".                                        *)
(***************************************************************************)
Statuses == {200, 401, 402, 403, 404, 429, 500}

RateObject == JMap([k \in {"limit", "reset"} |-> IF k = "limit" THEN JNum(25, 0) ELSE JNum(100, 0)])

ResultLists ==
    {JList(<<>>),
     JList(<<JMap([k \in LatLngKeys |-> JStr(<<"1", ".", "0">>)])>>),
     JList(<<JMap([k \in LatLngKeys |-> IF k = "lat" THEN JNull ELSE JStr(<<"1">>)])>>)}

NonJson == [json |-> FALSE]
JsonBody(f) == [json |-> TRUE, v |-> f]

Bodies ==
    {NonJson}
    \cup {JsonBody(f) : f \in [{} -> {JNull}] \cup [{"rate"} -> {RateObject}]}
    \cup {JsonBody(f) : f \in {[k \in {"results"} |-> r] : r \in ResultLists}}
    \cup {JsonBody(f) : f \in {[k \in {"rate", "results"} |-> IF k = "rate" THEN RateObject ELSE r]
                                : r \in ResultLists}}

Has(b, key) == b.json /\ key \in DOMAIN b.v

utcfromtimestamp(ts) == [t |-> "datetime", epoch |-> ts]

RateLimitExceededError(reset_time, reset_to) ==
    [t |-> "raise", v |-> "RateLimitExceededError", reset_time |-> reset_time, reset_to |-> reset_to]

\* _opencage_async_request once the response is there: lines 194 to 217.
\* A body that is no JSON leaves response_json unbound unless the status is 200.
_opencage_async_request(st, b) ==
    IF ~b.json /\ st = 200 THEN Raise("UnknownError")
    ELSE IF st = 401 THEN Raise("NotAuthorizedError")
    ELSE IF st = 403 THEN Raise("ForbiddenError")
    ELSE IF st = 402 \/ st = 429 THEN
        IF ~b.json THEN Raise("UnboundLocalError")
        ELSE IF ~Has(b, "rate") THEN Raise("KeyError")
        ELSE RateLimitExceededError(utcfromtimestamp(b.v["rate"].v["reset"]),
                                    b.v["rate"].v["limit"])
    ELSE IF st = 500 THEN Raise("UnknownError")
    ELSE IF ~b.json THEN Raise("UnboundLocalError")
    ELSE IF ~Has(b, "results") THEN Raise("UnknownError")
    ELSE [t |-> "ok", v |-> b]

\* The rest of geocode_async: lines 170 to 172.
geocode_async_result(response) ==
    IF IsRaise(response) THEN response
    ELSE IF IsRaise(floatify_latlng(response.v.v["results"]))
    THEN floatify_latlng(response.v.v["results"])
    ELSE [t |-> "return", v |-> floatify_latlng(response.v.v["results"])]

\* A client that sends the request again after a 500.
Receive_retry_500 ==
    /\ pc = "resp"
    /\ \E st \in Statuses, b \in Bodies :
         /\ status' = st
         /\ body' = b
         /\ reqResult' = _opencage_async_request(st, b)
         /\ outcome' = IF st = 500 THEN NotRun
                       ELSE geocode_async_result(_opencage_async_request(st, b))
         /\ pc' = IF st = 500 THEN "req" ELSE "idle"
    /\ raised' = IF IsRaise(outcome') THEN raised + 1 ELSE raised
    /\ succeeded' = (succeeded \/ outcome'.t = "return")
    /\ UNCHANGED <<aiohttp_avaiable, session, sessions, scopes, scopeErr, op, query, ncalls,
                   sessAtCall, depthAtCall, uaReqs, reqs, nvars, svars>>

Receive ==
    /\ pc = "resp"
    /\ \E st \in Statuses, b \in Bodies :
         /\ status' = st
         /\ body' = b
         /\ reqResult' = _opencage_async_request(st, b)
         /\ outcome' = geocode_async_result(_opencage_async_request(st, b))
    /\ raised' = IF IsRaise(outcome') THEN raised + 1 ELSE raised
    /\ succeeded' = (succeeded \/ outcome'.t = "return")
    /\ pc' = "idle"
    /\ UNCHANGED <<aiohttp_avaiable, session, sessions, scopes, scopeErr, op, query, ncalls,
                   sessAtCall, depthAtCall, uaReqs, reqs, nvars, svars>>

Init == ClientInit /\ NormIdle /\ SensorIdle

Next ==
    \/ __enter__
    \/ __aenter__
    \/ \E path \in ExitPaths : __exit__(path)
    \/ \E path \in ExitPaths : __aexit__(path)
    \/ geocode_async
    \/ reverse_geocode_async
    \/ getUA
    \/ SendRequest
    \/ Receive

Spec == Init /\ [][Next]_vars

(***************************************************************************)
(* binary_sensor.py: XploraBinarySensor.  The controller is the watch API  *)
(* client; what it answers is the environment's choice.  Whether the       *)
(* update timer has elapsed is the helper's answer, any boolean here.       *)
(***************************************************************************)
BINARY_SENSOR_CHARGING == "charging"
BINARY_SENSOR_SAFEZONE == "safezone"
BINARY_SENSOR_STATE == "state"
ATTR_WATCH == "watch"

BINARY_SENSOR_TYPES == {BINARY_SENSOR_CHARGING, BINARY_SENSOR_SAFEZONE, BINARY_SENSOR_STATE}

Text(str) == [t |-> "text", v |-> str]

RECURSIVE Distinct(_)
Distinct(seq) ==
    \/ seq = <<>>
    \/ /\ \A i \in 1..(Len(seq) - 1) : seq[i] # seq[Len(seq)]
       /\ Distinct(SubSeq(seq, 1, Len(seq) - 1))

ChildLists ==
    {l \in UNION {[1..n -> 1..MaxChildren] : n \in 0..MaxChildren} : Distinct(l)}

\* async_setup_platform adds an entity for each description whose key is
\* among the configured types; __init__ stores what it is given.
SensorInit ==
    /\ types \in SUBSET BINARY_SENSOR_TYPES
    /\ description_key \in BINARY_SENSOR_TYPES
    /\ description_key \in types
    /\ child_no \in ChildLists
    /\ first \in BOOLEAN
    /\ now = 0
    /\ start_time = 0
    /\ attr = NoAttr
    /\ upc = "idle"
    /\ idx = 0
    /\ log = <<>>
    /\ attrBefore = NoAttr
    /\ calledAt = 0
    /\ guardAtCall = "none"

\* What the controller answers about one watch.
Answers ==
    [locate : BOOLEAN, track : {-1, 60}, online : {"ONLINE", "OFFLINE"},
     safe : BOOLEAN, charging : BOOLEAN, name : {"anna"}]

Call(name, id, ret) == [call |-> name, id |-> id, ret |-> ret]

\* __isOnline: its result, the icon it leaves and the calls it makes.
__isOnline(id, a) ==
    LET c1 == <<Call("init_async", 0, JNull), Call("askWatchLocate_async", id, JBool(a.locate))>>
        c2 == Append(c1, Call("trackWatchInterval_async", id, JNum(a.track, 0)))
        c3 == Append(c2, Call("getWatchOnlineStatus_async", id, Text(a.online)))
    IN  IF a.locate THEN [ret |-> TRUE, icon |-> Text("mdi:lan-check"), calls |-> c1]
        ELSE IF a.track # -1 THEN [ret |-> TRUE, icon |-> Text("mdi:lan-check"), calls |-> c2]
        ELSE IF a.online = "ONLINE" THEN [ret |-> TRUE, icon |-> Text("mdi:lan-check"), calls |-> c3]
        ELSE [ret |-> FALSE, icon |-> Text("mdi:lan-disconnect"), calls |-> c3]

__isSafezone(id, a) ==
    [ret |-> IF a.safe THEN FALSE ELSE TRUE, icon |-> attr.icon,
     calls |-> <<Call("getWatchIsInSafeZone_async", id, JBool(a.safe))>>]

__isCharging(id, a) ==
    [ret |-> IF a.charging THEN TRUE ELSE FALSE, icon |-> attr.icon,
     calls |-> <<Call("getWatchIsCharging_async", id, JBool(a.charging))>>]

__isTypes(sensor_type) == sensor_type \in types /\ description_key = sensor_type

\* __default_attr after the sensor's own query r: the attributes and the calls.
__default_attr(r, sensor_type, id, a) ==
    LET name == <<a.name, ATTR_WATCH, sensor_type, id>> IN
    [attr |-> [native_value |-> JBool(r.ret), name |-> name, unique_id |-> <<id, name>>,
               is_on |-> JBool(r.ret), icon |-> r.icon],
     calls |-> Append(r.calls, Call("getWatchUserName_async", id, Text(a.name)))]

\* __update(id): the first of the three sensor types that is the entity's.
__update(id, a) ==
    IF __isTypes(BINARY_SENSOR_STATE)
    THEN __default_attr(__isOnline(id, a), BINARY_SENSOR_STATE, id, a)
    ELSE IF __isTypes(BINARY_SENSOR_SAFEZONE)
    THEN __default_attr(__isSafezone(id, a), BINARY_SENSOR_SAFEZONE, id, a)
    ELSE IF __isTypes(BINARY_SENSOR_CHARGING)
    THEN __default_attr(__isCharging(id, a), BINARY_SENSOR_CHARGING, id, a)
    ELSE [attr |-> attr, calls |-> <<>>]

\* async_update that goes on whatever its condition says.
async_update_unguarded ==
    /\ upc = "idle"
    /\ \E timer \in BOOLEAN :
         /\ guardAtCall' = IF timer \/ first THEN "run" ELSE "skip"
         /\ first' = FALSE
         /\ start_time' = now
         /\ idx' = 1
         /\ upc' = IF child_no = <<>> THEN "idle" ELSE "children"
    /\ attrBefore' = attr
    /\ calledAt' = now
    /\ log' = <<>>
    /\ UNCHANGED <<description_key, types, child_no, now, attr, nvars, cvars>>

\* async_update up to its loop: lines 141 to 144.
async_update ==
    /\ upc = "idle"
    /\ \E timer \in BOOLEAN :
         IF timer \/ first
         THEN /\ guardAtCall' = "run"
              /\ first' = FALSE
              /\ start_time' = now
              /\ idx' = 1
              /\ upc' = IF child_no = <<>> THEN "idle" ELSE "children"
         ELSE /\ guardAtCall' = "skip"
              /\ UNCHANGED <<first, start_time, idx, upc>>
    /\ attrBefore' = attr
    /\ calledAt' = now
    /\ log' = <<>>
    /\ UNCHANGED <<description_key, types, child_no, now, attr, nvars, cvars>>

\* One turn of the loop: await self.__update(id) for the next id.
UpdateChild ==
    /\ upc = "children"
    /\ \E a \in Answers :
         /\ attr' = __update(child_no[idx], a).attr
         /\ log' = log \o __update(child_no[idx], a).calls
    /\ idx' = idx + 1
    /\ upc' = IF idx = Len(child_no) THEN "idle" ELSE "children"
    /\ UNCHANGED <<description_key, types, child_no, first, start_time, now, attrBefore, calledAt,
                   guardAtCall, nvars, cvars>>

Tick ==
    /\ upc \in {"idle", "children"}
    /\ now < MaxTime
    /\ now' = now + 1
    /\ UNCHANGED <<description_key, types, child_no, first, start_time, attr, upc, idx, log, attrBefore,
                   calledAt, guardAtCall, nvars, cvars>>

SensorNext == async_update \/ UpdateChild \/ Tick

InitSensor == SensorInit /\ ClientIdle /\ NormIdle

SpecSensor == InitSensor /\ [][SensorNext]_vars

(***************************************************************************)
(* Properties of the normalizer.                                           *)
(***************************************************************************)
IsLeaf(x) == x.t = "map" /\ DOMAIN x.v = LatLngKeys

\* What the specification's floatIfFloat returns: the number a value parses
\* to, and the value itself when it does not parse.
FloatOrSame(s) ==
    IF s.t = "str" /\ IsFloatLiteral(s.v) THEN ParseFloat(s.v)
    ELSE IF s.t = "bool" THEN (IF s.v THEN JNum(1, 0) ELSE JNum(0, 0))
    ELSE s

\* y is x with every coordinate leaf converted and everything else kept.
RECURSIVE Conforms(_, _)
Conforms(x, y) ==
    IF IsLeaf(x) THEN
        /\ y.t = "map"
        /\ DOMAIN y.v = LatLngKeys
        /\ \A k \in LatLngKeys : y.v[k] = FloatOrSame(x.v[k])
    ELSE IF x.t = "map" THEN
        /\ y.t = "map"
        /\ DOMAIN y.v = DOMAIN x.v
        /\ \A k \in DOMAIN x.v : Conforms(x.v[k], y.v[k])
    ELSE IF x.t = "list" THEN
        /\ y.t = "list"
        /\ Len(y.v) = Len(x.v)
        /\ \A i \in 1..Len(x.v) : Conforms(x.v[i], y.v[i])
    ELSE y = x

\* Some coordinate leaf of x holds a value float() rejects with a TypeError.
RECURSIVE HasUnfloatableLeaf(_)
HasUnfloatableLeaf(x) ==
    IF IsLeaf(x) THEN \E k \in LatLngKeys : x.v[k].t \in {"null", "list", "map"}
    ELSE IF x.t = "map" THEN \E k \in DOMAIN x.v : HasUnfloatableLeaf(x.v[k])
    ELSE IF x.t = "list" THEN \E i \in 1..Len(x.v) : HasUnfloatableLeaf(x.v[i])
    ELSE FALSE

\* Every coordinate leaf of x holds two numbers.
RECURSIVE NumericLeaves(_)
NumericLeaves(x) ==
    IF IsLeaf(x) THEN \A k \in LatLngKeys : x.v[k].t = "num"
    ELSE IF x.t = "map" THEN \A k \in DOMAIN x.v : NumericLeaves(x.v[k])
    ELSE IF x.t = "list" THEN \A i \in 1..Len(x.v) : NumericLeaves(x.v[i])
    ELSE TRUE

\* x holds a coordinate leaf with two different numbers, below its root.
RECURSIVE HasNestedNumericLeaf(_, _)
HasNestedNumericLeaf(x, depth) ==
    IF IsLeaf(x) THEN /\ depth > 0
                      /\ x.v["lat"].t = "num" /\ x.v["lng"].t = "num"
                      /\ x.v["lat"] # x.v["lng"]
    ELSE IF x.t = "map" THEN \E k \in DOMAIN x.v : HasNestedNumericLeaf(x.v[k], depth + 1)
    ELSE IF x.t = "list" THEN \E i \in 1..Len(x.v) : HasNestedNumericLeaf(x.v[i], depth + 1)
    ELSE FALSE

\* C4: floatify_latlng is the structural fold on every tree: coordinate
\* leaves converted, every other mapping with its keys, every list with its
\* length and order, every scalar unchanged.
C4_StructuralFold == npc \in {"once", "twice"} => Conforms(input, out)

\* Where no leaf holds a value float() rejects with a TypeError, the fold
\* holds; and floatify_latlng raises exactly on the other trees.
FoldWhereFloatable ==
    npc \in {"once", "twice"} =>
        /\ IsRaise(out) <=> HasUnfloatableLeaf(input)
        /\ ~HasUnfloatableLeaf(input) => Conforms(input, out)

\* C5: float_if_float never raises: under lat or lng it returns the number
\* the value parses to and the value itself otherwise, so floatify_latlng
\* returns a value on every tree.
C5_FloatIfFloatNeverRaises ==
    npc \in {"once", "twice"} =>
        /\ ~IsRaise(out)
        /\ IsLeaf(input) => \A k \in LatLngKeys : out.v[k] = FloatOrSame(input.v[k])

\* C7: on a tree whose coordinate leaves hold numbers, applying
\* floatify_latlng twice gives what applying it once gives.
C7_Idempotent == (npc = "twice" /\ NumericLeaves(input)) => out2 = out

C7_Witness == npc = "twice" /\ NumericLeaves(input) /\ HasNestedNumericLeaf(input, 0)

(***************************************************************************)
(* Properties of the geocoding client.                                     *)
(***************************************************************************)
\* The classification table of the specification, first matching row.
Table(st, b) ==
    IF ~b.json /\ st = 200 THEN "UnknownError"
    ELSE IF st = 401 THEN "NotAuthorizedError"
    ELSE IF st = 403 THEN "ForbiddenError"
    ELSE IF st \in {402, 429} THEN "RateLimitExceededError"
    ELSE IF st = 500 THEN "UnknownError"
    ELSE IF b.json /\ ~Has(b, "results") THEN "UnknownError"
    ELSE "success"

\* C1: whatever the status and the body of a response, the request ends as
\* the first matching row of the classification table says.
C1_ClassificationTable ==
    status # 0 =>
        IF Table(status, body) = "success"
        THEN reqResult = [t |-> "ok", v |-> body]
        ELSE IsRaise(reqResult) /\ reqResult.v = Table(status, body)

\* C2: a geocode or reverse-geocode call made while no scope is entered
\* raises AioHttpError and sends no request, whatever happened before.
C2_NoScopeNoCall ==
    (ncalls > 0 /\ depthAtCall = 0) =>
        /\ pc = "idle"
        /\ outcome = Raise("AioHttpError")
        /\ uaReqs = 0
        /\ reqs = 0

C2_Witness ==
    /\ ncalls > 0 /\ depthAtCall = 0
    /\ op = "reverse"
    /\ succeeded
    /\ \E i \in DOMAIN sessions : sessions[i].closed

\* C3: once every entered scope has exited, every session the client
\* opened is closed and the client holds none.
C3_AllClosedAfterExit ==
    scopes = <<>> => (session = None /\ \A i \in DOMAIN sessions : sessions[i].closed)

HoldsAiohttpSession ==
    aiohttp_avaiable /\ session # None /\ sessions[session].kind = "aiohttp"

InvalidInputNoEffect ==
    /\ outcome' = Raise("InvalidInputError")
    /\ pc' = "idle"
    /\ uaReqs' = 0
    /\ reqs' = 0
    /\ session' = session
    /\ sessions' = sessions
    /\ scopes' = scopes

\* C6 as stated: every geocode call whose query is no string raises
\* InvalidInputError, sends no request and leaves the session state alone.
C6_InvalidInputAlways ==
    [][(ncalls' = ncalls + 1 /\ query'.t # "str") => InvalidInputNoEffect]_vars

\* C6 as amended: a geocode call whose query is no string, made while the
\* client holds the aiohttp session of an async scope, raises
\* InvalidInputError, sends no request and leaves the session state alone.
C6_InvalidInputInSession ==
    [][(ncalls' = ncalls + 1 /\ query'.t # "str" /\ HoldsAiohttpSession)
          => InvalidInputNoEffect]_vars

C6_Witness ==
    /\ ncalls > 0 /\ query.t # "str"
    /\ HoldsAiohttpSession /\ sessAtCall = session
    /\ outcome = Raise("InvalidInputError")
    /\ uaReqs = 0 /\ reqs = 0

\* C8: a call sends at most one request to the geocoding endpoint, and a
\* response classified as a failure is raised once, ending the call.
C8_NoRetry ==
    /\ reqs <= 1
    /\ raised <= 1
    /\ raised = 1 => (pc = "idle" /\ IsRaise(outcome))
    /\ (status # 0 /\ IsRaise(reqResult)) =>
           (pc = "idle" /\ outcome = reqResult /\ raised = 1 /\ reqs = 1)

C8_Witness == status = 500 /\ IsRaise(reqResult) /\ pc = "idle" /\ reqs = 1 /\ raised = 1

Taxonomy ==
    {"InvalidInputError", "UnknownError", "RateLimitExceededError", "NotAuthorizedError",
     "ForbiddenError", "AioHttpError"}

\* C9: a call made inside a scope and completed by a response either returns the normalized
\* results of a body that has them or raises an error of the taxonomy, a
\* RateLimitExceededError carrying the body's rate.limit and rate.reset.
C9_ResultsOrTaxonomy ==
    (ncalls > 0 /\ pc = "idle" /\ depthAtCall > 0 /\ status # 0) =>
        \/ /\ outcome.t = "return"
           /\ Has(body, "results")
           /\ Conforms(body.v["results"], outcome.v)
        \/ /\ IsRaise(outcome)
           /\ outcome.v \in Taxonomy
           /\ outcome.v = "RateLimitExceededError" =>
                 /\ Has(body, "rate")
                 /\ outcome.reset_to = body.v["rate"].v["limit"]
                 /\ outcome.reset_time = utcfromtimestamp(body.v["rate"].v["reset"])

(***************************************************************************)
(* Properties of the binary sensor.                                        *)
(***************************************************************************)
\* The controller calls the sensor type of the entity may make.
CallsOf(sensor_type) ==
    CASE sensor_type = BINARY_SENSOR_STATE ->
            {"init_async", "askWatchLocate_async", "trackWatchInterval_async",
             "getWatchOnlineStatus_async", "getWatchUserName_async"}
      [] sensor_type = BINARY_SENSOR_SAFEZONE ->
            {"getWatchIsInSafeZone_async", "getWatchUserName_async"}
      [] sensor_type = BINARY_SENSOR_CHARGING ->
            {"getWatchIsCharging_async", "getWatchUserName_async"}

\* The ids the calls named c of the log were made for, in the log's order.
IdsOf(c) ==
    LET sel == SelectSeq(log, LAMBDA e : e.call = c)
    IN  [i \in 1..Len(sel) |-> sel[i].id]

LastOf(c) ==
    LET sel == SelectSeq(log, LAMBDA e : e.call = c) IN sel[Len(sel)]

ChildrenDone == IF upc = "idle" THEN child_no ELSE SubSeq(child_no, 1, idx - 1)

\* C10: async_update calls the controller only when the timer has elapsed
\* or on the first update; then it clears _first, resets _start_time and
\* updates, for each child id in order, the one sensor type that is the
\* entity's key, the safe-zone sensor being on when the watch is not in a
\* safe zone; otherwise it calls nothing and leaves the attributes alone.
C10_UpdateWhenDue ==
    /\ guardAtCall = "skip" => (upc = "idle" /\ log = <<>> /\ attr = attrBefore)
    /\ guardAtCall = "run" =>
        /\ first = FALSE
        /\ start_time = calledAt
        /\ \A i \in DOMAIN log : log[i].call \in CallsOf(description_key)
        /\ IdsOf("getWatchUserName_async") = ChildrenDone
        /\ description_key = BINARY_SENSOR_STATE => IdsOf("askWatchLocate_async") = ChildrenDone
        /\ description_key = BINARY_SENSOR_SAFEZONE =>
               IdsOf("getWatchIsInSafeZone_async") = ChildrenDone
        /\ description_key = BINARY_SENSOR_CHARGING =>
               IdsOf("getWatchIsCharging_async") = ChildrenDone
        /\ ChildrenDone # <<>> =>
            /\ attr.name[3] = description_key
            /\ attr.name[4] = ChildrenDone[Len(ChildrenDone)]
            /\ attr.unique_id = <<attr.name[4], attr.name>>
            /\ description_key = BINARY_SENSOR_SAFEZONE =>
                   attr.is_on = JBool(~LastOf("getWatchIsInSafeZone_async").ret.v)
            /\ description_key = BINARY_SENSOR_CHARGING =>
                   attr.is_on = LastOf("getWatchIsCharging_async").ret
        /\ ChildrenDone = <<>> => attr = attrBefore

C10_Witness ==
    /\ guardAtCall = "skip"
    /\ description_key = BINARY_SENSOR_SAFEZONE
    /\ Len(child_no) = 2
    /\ attr.is_on = JBool(TRUE)
    /\ attr.name[4] = child_no[2]

====
